---- MODULE Spec2Model ----
(***************************************************************************)
(* Model of listnr-tools (src/src/main.rs): the substitution applier       *)
(* (read_substitutions, apply_substitutions), the code block elider        *)
(* (process_code_blocks) and the chunk accumulator (chunk_markdown).       *)
(*                                                                         *)
(* Strings are sequences of one-character strings.  Every payload used     *)
(* here is ASCII, so str::len of Rust (a byte count) is Len.                *)
(***************************************************************************)
EXTENDS Integers, Sequences, FiniteSets

VARIABLES
    pc,             \* position of the run inside the operation being modelled
    \* ---- chunk_markdown ----
    nodes,          \* root.descendants(): the parsed nodes, in document order
    pos,            \* index of the next node the iterator yields
    chunks,         \* fold accumulator, component .0
    current_chunk,  \* fold accumulator, component .1
    chunk_src,      \* history: for each pushed chunk, the node indices it holds
    current_src,    \* history: the node indices held by current_chunk
    result,         \* the Vec<String> chunk_markdown returns
    \* ---- process_code_blocks ----
    literal,        \* the literal payload of a CodeBlock
    once,           \* process_code_blocks(literal)
    twice,          \* process_code_blocks(once)
    \* ---- read_substitutions / apply_substitutions ----
    header_len,     \* number of fields of the CSV header row
    rows,           \* the CSV data rows after the header, each a sequence of fields
    rpos,           \* index of the next row rdr.records() yields
    substitutions,  \* the HashMap<String, String>, a function from keys to values
    content,        \* the document text handed to apply_substitutions
    todo,           \* keys the HashMap iterator has not yielded yet
    applied,        \* history: the keys in the order the iterator yielded them
    text            \* the local result of apply_substitutions

vars == <<pc, nodes, pos, chunks, current_chunk, chunk_src, current_src, result,
          literal, once, twice,
          header_len, rows, rpos, substitutions, content, todo, applied, text>>

chunkVars == <<nodes, pos, chunks, current_chunk, chunk_src, current_src, result>>
elideVars == <<literal, once, twice>>
substVars == <<header_len, rows, rpos, substitutions, content, todo, applied, text>>

(***************************************************************************)
(* Bounds of the model.                                                    *)
(***************************************************************************)
MaxNodes == 4
MaxPieces == 4
MaxRows == 2

(***************************************************************************)
(* Program constants.                                                      *)
(***************************************************************************)
SECTION_CHAR_LIMIT == 1500
ELISION_THRESHOLD == 80

\* A string of n copies of the character c.
Rep(c, n) == [i \in 1..n |-> c]

RECURSIVE Concat(_)
\* The concatenation of a sequence of strings.
Concat(ss) == IF ss = <<>> THEN <<>> ELSE Head(ss) \o Concat(Tail(ss))

\* The grave accent character U+0060, written BT because the TLA+ lexer
\* reserves the character itself.
BT == "BT"

FENCE == <<BT, BT, BT>>

PLACEHOLDER ==
    <<"l","i","s","t","i","n","g"," ","o","m","i","t","t","e","d",";"," ",
      "p","l","e","a","s","e"," ","s","e","e"," ","t","h","e"," ",
      "o","r","i","g","i","n","a","l"," ","s","o","u","r","c","e">>

(***************************************************************************)
(* process_code_blocks: the regex FENCE [\s\S]*? FENCE with replace_all.    *)
(***************************************************************************)
\* The three characters of s starting at i are a fence.
FenceAt(s, i) ==
    /\ i >= 1
    /\ i + 2 <= Len(s)
    /\ s[i] = BT /\ s[i+1] = BT /\ s[i+2] = BT

\* The first position >= from where a fence starts, 0 when there is none.
FirstFence(s, from) ==
    LET F == {i \in from..Len(s) : FenceAt(s, i)}
    IN  IF F = {} THEN 0 ELSE CHOOSE m \in F : \A n \in F : m <= n

\* The start of the leftmost match at or after from, 0 when there is none.
\* The regex engine tries the start positions from left to right; a match
\* starts at an opening fence that a closing fence follows without
\* overlapping it.  Every closing fence of a later opening fence also closes
\* the first one, so the leftmost match starts at the first fence or nowhere.
MatchStart(s, from) ==
    LET i == FirstFence(s, from)
    IN  IF i # 0 /\ FirstFence(s, i + 3) # 0 THEN i ELSE 0

\* The lazy quantifier stops at the first closing fence: the index of the
\* last character of the match that starts at i.
MatchEnd(s, i) == FirstFence(s, i + 3) + 2

\* The keep-the-opening-fence variant of the replacement closure.
ReplacementKeepFence(code_block) ==
    IF Len(code_block) > ELISION_THRESHOLD
    THEN FENCE \o PLACEHOLDER
    ELSE code_block

\* The closure handed to replace_all.
Replacement(code_block) ==
    IF Len(code_block) > ELISION_THRESHOLD
    THEN PLACEHOLDER
    ELSE code_block

RECURSIVE ReplaceAllFrom(_, _)
\* replace_all from position from on: leftmost, non-overlapping matches.
ReplaceAllFrom(s, from) ==
    IF MatchStart(s, from) = 0
    THEN SubSeq(s, from, Len(s))
    ELSE LET i == MatchStart(s, from)
             e == MatchEnd(s, i)
         IN  SubSeq(s, from, i - 1) \o Replacement(SubSeq(s, i, e))
                 \o ReplaceAllFrom(s, e + 1)

process_code_blocks(s) == ReplaceAllFrom(s, 1)

(***************************************************************************)
(* chunk_markdown.                                                         *)
(***************************************************************************)
Node(k, l) == [kind |-> k, literal |-> l]

\* The filter_map closure: Some(payload) as <<payload>>, None as <<>>.
LeafPayload(node) ==
    CASE node.kind = "Text"      -> <<node.literal>>
      [] node.kind = "Code"      -> <<node.literal>>
      [] node.kind = "CodeBlock" -> <<process_code_blocks(node.literal)>>
      [] OTHER                   -> <<>>

RECURSIVE Payloads(_, _)
\* The payloads filter_map yields for the first n nodes of ns, in order.
Payloads(ns, n) ==
    IF n = 0 THEN <<>> ELSE Payloads(ns, n - 1) \o LeafPayload(ns[n])

RECURSIVE LeafIndices(_, _)
\* The indices, among the first n nodes of ns, of the nodes that are leaves.
LeafIndices(ns, n) ==
    IF n = 0 THEN <<>>
    ELSE LeafIndices(ns, n - 1) \o (IF LeafPayload(ns[n]) = <<>> THEN <<>> ELSE <<n>>)

\* The flush test that forgets the incoming leaf.
NeedsFlushBufferOnly(cur, leaf) == Len(cur) > SECTION_CHAR_LIMIT

\* The condition of the fold closure.
NeedsFlush(cur, leaf) == Len(cur) + Len(leaf) > SECTION_CHAR_LIMIT

\* The fold closure that clears the buffer without pushing it.
FoldStepNoPush(cs, cur, leaf) ==
    IF NeedsFlush(cur, leaf)
    THEN <<cs, leaf>>
    ELSE <<cs, cur \o leaf>>

\* The fold closure: the next (chunks, current_chunk).
FoldStep(cs, cur, leaf) ==
    IF NeedsFlush(cur, leaf)
    THEN <<Append(cs, cur), leaf>>
    ELSE <<cs, cur \o leaf>>

\* A fenced listing of ELISION_THRESHOLD + 1 characters, fences included.
LongBlock == FENCE \o Rep("x", ELISION_THRESHOLD - 5) \o FENCE

\* Nodes the parser hands over; the large ones sit around the limit.
SampleNodes ==
    { Node("CodeBlock", <<>>),
      Node("Text", <<"a">>),
      Node("Text", Rep("b", SECTION_CHAR_LIMIT \div 2)),
      Node("Code", Rep("c", SECTION_CHAR_LIMIT \div 2 + 1)),
      Node("Text", Rep("e", SECTION_CHAR_LIMIT + 1)),
      Node("CodeBlock", LongBlock),
      Node("Paragraph", <<>>) }

SeqsUpTo(S, n) == UNION {[1..k -> S] : k \in 0..n}

IdleChunk ==
    /\ nodes = <<>> /\ pos = 1 /\ chunks = <<>> /\ current_chunk = <<>>
    /\ chunk_src = <<>> /\ current_src = <<>> /\ result = <<>>

IdleElide == literal = <<>> /\ once = <<>> /\ twice = <<>>

IdleSubst ==
    /\ header_len = 2 /\ rows = <<>> /\ rpos = 1 /\ substitutions = <<>>
    /\ content = <<>> /\ todo = {} /\ applied = <<>> /\ text = <<>>

\* The state when the fold starts: (Vec::new(), String::new()).
Init ==
    /\ pc = "fold"
    /\ nodes \in SeqsUpTo(SampleNodes, MaxNodes)
    /\ pos = 1
    /\ chunks = <<>>
    /\ current_chunk = <<>>
    /\ chunk_src = <<>>
    /\ current_src = <<>>
    /\ result = <<>>
    /\ IdleElide
    /\ IdleSubst

\* filter_map returns None: the node is no leaf and the fold does not see it.
SkipNode ==
    /\ pc = "fold"
    /\ pos <= Len(nodes)
    /\ LeafPayload(nodes[pos]) = <<>>
    /\ pos' = pos + 1
    /\ UNCHANGED <<pc, nodes, chunks, current_chunk, chunk_src, current_src, result>>
    /\ UNCHANGED <<elideVars, substVars>>

\* The fold closure when the condition holds: push the buffer, start a new one.
FoldFlush ==
    /\ pc = "fold"
    /\ pos <= Len(nodes)
    /\ LeafPayload(nodes[pos]) # <<>>
    /\ LET leaf == LeafPayload(nodes[pos])[1]
           next == FoldStep(chunks, current_chunk, leaf)
       IN  /\ NeedsFlush(current_chunk, leaf)
           /\ chunks' = next[1]
           /\ current_chunk' = next[2]
           /\ chunk_src' = Append(chunk_src, current_src)
           /\ current_src' = <<pos>>
    /\ pos' = pos + 1
    /\ UNCHANGED <<pc, nodes, result>>
    /\ UNCHANGED <<elideVars, substVars>>

\* The fold closure when the condition fails: the leaf joins the buffer.
FoldAppend ==
    /\ pc = "fold"
    /\ pos <= Len(nodes)
    /\ LeafPayload(nodes[pos]) # <<>>
    /\ LET leaf == LeafPayload(nodes[pos])[1]
           next == FoldStep(chunks, current_chunk, leaf)
       IN  /\ ~NeedsFlush(current_chunk, leaf)
           /\ chunks' = next[1]
           /\ current_chunk' = next[2]
           /\ chunk_src' = chunk_src
           /\ current_src' = Append(current_src, pos)
    /\ pos' = pos + 1
    /\ UNCHANGED <<pc, nodes, result>>
    /\ UNCHANGED <<elideVars, substVars>>

\* The iterator is exhausted: component .0 of the accumulator is returned.
Return ==
    /\ pc = "fold"
    /\ pos > Len(nodes)
    /\ result' = chunks
    /\ pc' = "done"
    /\ UNCHANGED <<nodes, pos, chunks, current_chunk, chunk_src, current_src>>
    /\ UNCHANGED <<elideVars, substVars>>

Next == SkipNode \/ FoldFlush \/ FoldAppend \/ Return

Spec == Init /\ [][Next]_vars

(***************************************************************************)
(* process_code_blocks applied to a CodeBlock literal, once and again.     *)
(***************************************************************************)
\* Fragments the sample literals are built from.
Pieces ==
    { FENCE, <<BT>>, <<"x">>, Rep("x", ELISION_THRESHOLD - 6),
      Rep("x", ELISION_THRESHOLD + 1), LongBlock }

Literals ==
    {Concat(ps) : ps \in SeqsUpTo(Pieces, MaxPieces)} \cup {PLACEHOLDER}

InitElide ==
    /\ pc = "elide"
    /\ literal \in Literals
    /\ once = <<>>
    /\ twice = <<>>
    /\ IdleChunk
    /\ IdleSubst

\* process_code_blocks(&code_block.literal)
ElideOnce ==
    /\ pc = "elide"
    /\ once' = process_code_blocks(literal)
    /\ pc' = "elided"
    /\ UNCHANGED <<literal, twice>>
    /\ UNCHANGED <<chunkVars, substVars>>

\* process_code_blocks applied to its own output.
ElideTwice ==
    /\ pc = "elided"
    /\ twice' = process_code_blocks(once)
    /\ pc' = "reelided"
    /\ UNCHANGED <<literal, once>>
    /\ UNCHANGED <<chunkVars, substVars>>

NextElide == ElideOnce \/ ElideTwice

SpecElide == InitElide /\ [][NextElide]_vars

(***************************************************************************)
(* read_substitutions and apply_substitutions.                             *)
(***************************************************************************)
\* The pattern from occurs in s at position i.
MatchesAt(s, from, i) ==
    /\ i + Len(from) - 1 <= Len(s)
    /\ SubSeq(s, i, i + Len(from) - 1) = from

RECURSIVE ReplaceFrom(_, _, _, _)
\* str::replace from position i on: every non-overlapping match of from, left
\* to right.  The empty pattern matches before every character and at the end.
ReplaceFrom(s, from, to, i) ==
    IF from = <<>>
    THEN to \o (IF i > Len(s) THEN <<>>
                ELSE <<s[i]>> \o ReplaceFrom(s, from, to, i + 1))
    ELSE IF i > Len(s) THEN <<>>
    ELSE IF MatchesAt(s, from, i)
         THEN to \o ReplaceFrom(s, from, to, i + Len(from))
         ELSE <<s[i]>> \o ReplaceFrom(s, from, to, i + 1)

Replace(s, from, to) == ReplaceFrom(s, from, to, 1)

\* HashMap::insert: a later value for the same key replaces the earlier one.
Insert(m, key, val) ==
    [k \in (DOMAIN m) \cup {key} |-> IF k = key THEN val ELSE m[k]]

\* What rdr.records() yields for a data row: the reader is built with the
\* defaults of the csv crate (a header row, no flexible record lengths), so a
\* row whose field count differs from the header row is an Err.
RecordIsOk(hl, row) == Len(row) = hl

FieldVals == { <<>>, <<"a">>, <<"b">>, <<"c">> }

SampleRows ==
    {<<f, t>> : f \in FieldVals, t \in FieldVals}
        \cup { <<<<"a">>>>, <<<<"a">>, <<"b">>, <<"c">>>> }

SampleContents == { <<"a">>, <<"a", "b">>, <<"b", "a", "c">> }

InitSubst ==
    /\ pc = "read"
    /\ header_len \in {1, 2, 3}
    /\ rows \in SeqsUpTo(SampleRows, MaxRows)
    /\ rpos = 1
    /\ substitutions = <<>>
    /\ content \in SampleContents
    /\ todo = {}
    /\ applied = <<>>
    /\ text = <<>>
    /\ IdleChunk
    /\ IdleElide

\* try_for_each closure: a record of two fields is inserted.
ReadInsert ==
    /\ pc = "read"
    /\ rpos <= Len(rows)
    /\ RecordIsOk(header_len, rows[rpos])
    /\ Len(rows[rpos]) = 2
    /\ substitutions' = Insert(substitutions, rows[rpos][1], rows[rpos][2])
    /\ rpos' = rpos + 1
    /\ UNCHANGED <<pc, header_len, rows, content, todo, applied, text>>
    /\ UNCHANGED <<chunkVars, elideVars>>

\* try_for_each closure: a record of another length is passed over.
ReadSkip ==
    /\ pc = "read"
    /\ rpos <= Len(rows)
    /\ RecordIsOk(header_len, rows[rpos])
    /\ Len(rows[rpos]) # 2
    /\ rpos' = rpos + 1
    /\ UNCHANGED <<pc, header_len, rows, substitutions, content, todo, applied, text>>
    /\ UNCHANGED <<chunkVars, elideVars>>

\* try_for_each closure: the ? on an Err result ends read_substitutions and main.
ReadError ==
    /\ pc = "read"
    /\ rpos <= Len(rows)
    /\ ~RecordIsOk(header_len, rows[rpos])
    /\ pc' = "failed"
    /\ UNCHANGED substVars
    /\ UNCHANGED <<chunkVars, elideVars>>

\* Ok(substitutions); main calls apply_substitutions: result = content.to_string().
ReadDone ==
    /\ pc = "read"
    /\ rpos > Len(rows)
    /\ text' = content
    /\ todo' = DOMAIN substitutions
    /\ pc' = "apply"
    /\ UNCHANGED <<header_len, rows, rpos, substitutions, content, applied>>
    /\ UNCHANGED <<chunkVars, elideVars>>

\* One iteration of the for loop over substitutions: the HashMap yields its
\* entries in an arbitrary order.
ApplyRule ==
    /\ pc = "apply"
    /\ \E from \in todo :
          /\ text' = Replace(text, from, substitutions[from])
          /\ todo' = todo \ {from}
          /\ applied' = Append(applied, from)
    /\ UNCHANGED <<pc, header_len, rows, rpos, substitutions, content>>
    /\ UNCHANGED <<chunkVars, elideVars>>

\* The loop is over: apply_substitutions returns result.
ApplyDone ==
    /\ pc = "apply"
    /\ todo = {}
    /\ pc' = "applied"
    /\ UNCHANGED substVars
    /\ UNCHANGED <<chunkVars, elideVars>>

NextSubst ==
    ReadInsert \/ ReadSkip \/ ReadError \/ ReadDone \/ ApplyRule \/ ApplyDone

SpecSubst == InitSubst /\ [][NextSubst]_vars

(***************************************************************************)
(* Properties of the chunk accumulator (checked under Spec).               *)
(***************************************************************************)
\* The payload of the leaf at node index i.
LeafAt(i) == LeafPayload(nodes[i])[1]

\* The payloads of the leaves a chunk holds, in order.
SrcPayloads(src) == [k \in 1..Len(src) |-> LeafAt(src[k])]

RECURSIVE JoinFrom(_, _)
\* The strings of ss appended to buf in order, a single space put before a
\* string whenever the text it is appended to is non-empty.
JoinFrom(buf, ss) ==
    IF ss = <<>> THEN buf
    ELSE JoinFrom(IF buf = <<>> THEN Head(ss) ELSE buf \o <<" ">> \o Head(ss),
                  Tail(ss))

JoinWithSpace(ss) == JoinFrom(<<>>, ss)

\* The history variables record the leaves of every chunk and of the buffer.
SrcConsistent ==
    /\ Len(chunk_src) = Len(chunks)
    /\ \A k \in 1..Len(chunks) : chunks[k] = Concat(SrcPayloads(chunk_src[k]))
    /\ current_chunk = Concat(SrcPayloads(current_src))
    /\ pc = "done" => result = chunks

\* C1: every returned chunk has length <= SECTION_CHAR_LIMIT, except a chunk
\* that consists of exactly one leaf whose own length exceeds the limit.
C1_ChunkSizeBound ==
    pc = "done" =>
        \A k \in 1..Len(result) :
            \/ Len(result[k]) <= SECTION_CHAR_LIMIT
            \/ /\ Len(chunk_src[k]) = 1
               /\ Len(LeafAt(chunk_src[k][1])) > SECTION_CHAR_LIMIT

\* C1 witness: a run returned a chunk within the limit that holds several
\* leaves and an oversized chunk made of a single leaf.
C1_Witness ==
    /\ pc = "done"
    /\ \E k \in 1..Len(result) :
          Len(result[k]) <= SECTION_CHAR_LIMIT /\ Len(chunk_src[k]) >= 2
    /\ \E k \in 1..Len(result) :
          Len(result[k]) > SECTION_CHAR_LIMIT /\ Len(chunk_src[k]) = 1

\* C2: the leaves recovered from the returned chunks, in output order, are
\* the original leaf sequence: no leaf is dropped, duplicated or reordered.
C2_AllLeavesRecovered ==
    pc = "done" =>
        /\ Len(chunk_src) = Len(result)
        /\ \A k \in 1..Len(result) : result[k] = Concat(SrcPayloads(chunk_src[k]))
        /\ Concat(chunk_src) = LeafIndices(nodes, Len(nodes))

\* C3: every returned chunk is a non-empty string.
C3_ChunksNonEmpty ==
    pc = "done" => \A k \in 1..Len(result) : result[k] # <<>>

\* C4: after the last leaf a non-empty buffer is emitted as the final chunk;
\* a single leaf shorter than the limit yields exactly that one chunk.
C4_FinalBufferEmitted ==
    pc = "done" =>
        /\ current_chunk # <<>> =>
              Len(result) > 0 /\ result[Len(result)] = current_chunk
        /\ LET leaves == Payloads(nodes, Len(nodes))
           IN  (Len(leaves) = 1 /\ Len(leaves[1]) < SECTION_CHAR_LIMIT)
                   => result = leaves

\* C5: a leaf appended to a non-empty buffer is preceded by exactly one
\* space, and the flush decision counts that separator: every chunk and the
\* buffer are their leaves joined by single spaces, and a chunk of several
\* leaves stays within the limit with its separators counted.
C5_SpaceSeparated ==
    /\ \A k \in 1..Len(chunks) :
          chunks[k] = JoinWithSpace(SrcPayloads(chunk_src[k]))
    /\ current_chunk = JoinWithSpace(SrcPayloads(current_src))
    /\ Len(current_src) >= 2 =>
          Len(JoinWithSpace(SrcPayloads(current_src))) <= SECTION_CHAR_LIMIT

\* C10: at every step of the fold the chunks pushed so far followed by the
\* buffer are the concatenation of the leaf payloads consumed so far; the
\* returned chunks concatenate to a prefix of the whole text and the missing
\* text is the buffer left when the fold ends.
C10_FoldConcatInvariant ==
    /\ Concat(chunks) \o current_chunk = Concat(Payloads(nodes, pos - 1))
    /\ pc = "done" =>
          Concat(result) \o current_chunk = Concat(Payloads(nodes, Len(nodes)))

\* C10 witness: a run that returned text and left text behind in the buffer.
C10_Witness ==
    /\ pc = "done"
    /\ Concat(result) # <<>>
    /\ current_chunk # <<>>
    /\ Len(result) >= 2

(***************************************************************************)
(* Properties of the code block elider (checked under SpecElide).          *)
(***************************************************************************)
\* C6: the payload of a CodeBlock is the placeholder whenever its literal is
\* longer than ELISION_THRESHOLD and the literal unchanged otherwise.
C6_ElidedIffLong ==
    pc \in {"elided", "reelided"} =>
        once = IF Len(literal) > ELISION_THRESHOLD THEN PLACEHOLDER ELSE literal

\* C9: elision is idempotent: process_code_blocks applied to its own output
\* changes nothing; the placeholder is left unchanged.
C9_ElisionIdempotent ==
    /\ pc = "reelided" => twice = once
    /\ (pc \in {"elided", "reelided"} /\ literal = PLACEHOLDER) => once = PLACEHOLDER

\* C9 witness: process_code_blocks has run twice on a literal whose first
\* pass replaced a listing by the placeholder.
C9_Witness ==
    /\ pc = "reelided"
    /\ once # literal
    /\ \E i \in 1..Len(once) : SubSeq(once, i, i + Len(PLACEHOLDER) - 1) = PLACEHOLDER

(***************************************************************************)
(* Properties of the substitution applier (checked under SpecSubst).       *)
(***************************************************************************)
\* The keys of table m that match s at position i.
KeysAt(m, s, i) == {k \in DOMAIN m : k # <<>> /\ MatchesAt(s, k, i)}

\* The longest of a non-empty set of keys.
Longest(K) == CHOOSE k \in K : \A j \in K : Len(j) <= Len(k)

RECURSIVE SinglePass(_, _, _)
\* One left-to-right scan of s that replaces the longest key matching at each
\* position and never looks at the text a replacement produced.
SinglePass(m, s, i) ==
    IF i > Len(s) THEN <<>>
    ELSE IF KeysAt(m, s, i) = {} THEN <<s[i]>> \o SinglePass(m, s, i + 1)
    ELSE LET k == Longest(KeysAt(m, s, i))
         IN  m[k] \o SinglePass(m, s, i + Len(k))

\* C7: apply_substitutions returns the single-pass, longest-key-first,
\* non-cascading rewrite of the original text, whatever the order in which
\* the rules of the table are iterated.
C7_SinglePassAnyOrder ==
    (pc = "applied" /\ <<>> \notin DOMAIN substitutions) =>
        text = SinglePass(substitutions, content, 1)

\* C8: a rule whose from key is empty is rejected: it is never inserted into
\* the table and never applied to the text.
C8_EmptyFromRejected ==
    /\ <<>> \notin DOMAIN substitutions
    /\ \A i \in 1..Len(applied) : applied[i] # <<>>

====
